---- MODULE Spec2Model ----
(***************************************************************************)
(* Model of src/main.py: the Hanzi -> Anki note pipeline.                  *)
(*                                                                         *)
(* main() writes a header-only output/notes.csv, obtains the word list     *)
(* (file or interactive), removes duplicates, then for each word calls the *)
(* generation service once and the synthesis service twice, appends the    *)
(* record, rewrites the CSV after every 10th record and once at the end.   *)
(*                                                                         *)
(* Every state of the model is a point at which the process can be         *)
(* interrupted (or ended by an exception nobody catches): the value of csv *)
(* in that state is what is left on disk.                                  *)
(***************************************************************************)
EXTENDS Integers, Sequences, FiniteSets, TLC

\* ---- bounds of the model ------------------------------------------------
MaxWords == 22      \* length of the long input list
MaxLines == 3       \* longest short input (lines of a file / typed entries)
MaxFailures == 1    \* words of the long input the services fail for in one run
MaxSnapFaults == 1  \* write errors injected into in-loop snapshots in one run

\* ---- program constants --------------------------------------------------
SaveEvery == 10

\* ---- strings -------------------------------------------------------------
\* A string is modelled by its content (tag, h) and whether it carries
\* leading/trailing whitespace.  tag "" is the empty content.
Str(tag, h, pad) == [tag |-> tag, h |-> h, pad |-> pad]

\* str.strip()
Strip(s) == [s EXCEPT !.pad = FALSE]

\* truthiness of a str: non-empty (whitespace counts as content)
NonEmpty(s) == s.tag /= "" \/ s.pad

Word(i) == Str("hanzi", i, FALSE)
BlankLine == Str("", 0, FALSE)
SpaceLine == Str("", 0, TRUE)

fieldnames ==
    << "Hanzi", "English", "Pinyin", "Sentence",
       "Sentence (Translation)", "Sentence (Cloze)",
       "Audio (Word)", "Audio (Sentence)" >>

\* ---- the generation service's replies -------------------------------------
Keys == {"english", "pinyin", "sentence", "translation", "cloze"}

\* the JSON object the service returns for a word: the five values, the
\* sentence-like ones possibly padded with whitespace
Value(h, k, padded) ==
    Str(k, h.h, padded /\ k \in {"sentence", "translation", "cloze"})

\* A reply: the call raised (raised), or returned text that is JSON or not
\* (json), holding the keys `keys`.
Replies ==
    { [raised |-> TRUE, json |-> FALSE, keys |-> {}, padded |-> FALSE],
      [raised |-> FALSE, json |-> FALSE, keys |-> {}, padded |-> FALSE] }
    \cup { [raised |-> FALSE, json |-> TRUE, keys |-> Keys \ {k}, padded |-> FALSE]
             : k \in Keys }
    \cup { [raised |-> FALSE, json |-> TRUE, keys |-> Keys, padded |-> p]
             : p \in BOOLEAN }

\* ---- inputs ----------------------------------------------------------------
Alphabet == {BlankLine, SpaceLine, Word(1), Word(2), Str("hanzi", 1, TRUE)}

ShortInputs == UNION { [1..n -> Alphabet] : n \in 0..MaxLines }
LongInput == [i \in 1..MaxWords |-> Word(i)]
Inputs == ShortInputs \cup {LongInput}

VARIABLES
    pc,             \* position of main()
    input_file,     \* args.input_file given?
    path_exists,    \* os.path.exists(args.input_file)
    lines,          \* the file's lines, or the entries typed interactively
    words,          \* main.words
    removed,        \* the "Removed N duplicate words." message, -1 if not printed
    idx,            \* position of the for loop in words
    fields,         \* main.fields of the current word, <<>> before generation
    processed_rows, \* main.processed_rows
    failed_words,   \* main.failed_words
    row_count,      \* main.row_count
    csv,            \* output/notes.csv on disk
    audio,          \* files under output/audio
    saver,          \* which call of save_progress is running
    pending,        \* service calls issued and not yet returned
    calls,          \* service calls issued for the current word (history)
    nGen,           \* generation calls issued in the run (history)
    nSave,          \* in-loop save_progress calls in the run (history)
    nFinal,         \* end-of-run save_progress calls (history)
    succeeded,      \* words whose three service calls all returned (history)
    snapFaults,     \* write errors raised in in-loop snapshots (history)
    wpos,           \* rows save_progress has written so far
    reply,          \* what the generation call just returned (history)
    error           \* the exception caught at line 178 for the last word

vars == << pc, input_file, path_exists, lines, words, removed, idx, fields,
           processed_rows, failed_words, row_count, csv, audio, saver,
           pending, calls, nGen, nSave, nFinal, succeeded, snapFaults, wpos,
           reply, error >>

\* ---- the CSV file -----------------------------------------------------------
\* header: the header line is on disk; rows: the data rows on disk
EmptyFile == [header |-> FALSE, rows |-> << >>]

\* csv.DictWriter.writerow: the cells in fieldnames order
RowOf(f) == [i \in 1..Len(fieldnames) |-> f[fieldnames[i]]]

\* a variant that opens in mode "a": what is in the file stays
OpenForAppend(f) == f

\* mode "w" truncates the file when it is opened
OpenForWrite(f) == EmptyFile

\* DictWriter.writeheader
WriteHeader(f) == [f EXCEPT !.header = TRUE]

\* one row of DictWriter.writerows reaching the disk
WriteRow(f, r) == [f EXCEPT !.rows = Append(@, r)]

\* ---- audio files --------------------------------------------------------------
\* f"{'output/audio/'}{hanzi}_word.mp3"
Path(hanzi, suffix) ==
    [dir |-> "output/audio/", base |-> [stem |-> hanzi, suffix |-> suffix]]
NoPath == Path(BlankLine, "")

\* os.path.basename
Basename(p) == p.base

\* f"[sound:{os.path.basename(path)}]"
SoundRef(p) == [sound |-> Basename(p)]

\* a variant that does not notice a missing key (data.get with a default)
generate_fields_unvalidated(h, r) ==
    IF r.raised THEN [error |-> "ServiceError", fields |-> << >>]
    ELSE IF ~r.json THEN [error |-> "ValueError", fields |-> << >>]
    ELSE [error |-> "none",
          fields |-> << [ Hanzi |-> h,
                          English |-> Value(h, "english", r.padded),
                          Pinyin |-> Value(h, "pinyin", r.padded),
                          Sentence |-> Strip(Value(h, "sentence", r.padded)),
                          Translation |-> Strip(Value(h, "translation", r.padded)),
                          Cloze |-> Strip(Value(h, "cloze", r.padded)) ] >> ]

\* ---- generate_fields_from_hanzi ---------------------------------------------
\* json.loads fails -> ValueError; a missing key -> KeyError; the service
\* call itself may raise.  Otherwise the six fields, three of them stripped.
generate_fields_from_hanzi(h, r) ==
    IF r.raised THEN [error |-> "ServiceError", fields |-> << >>]
    ELSE IF ~r.json THEN [error |-> "ValueError", fields |-> << >>]
    ELSE IF ~(Keys \subseteq r.keys) THEN [error |-> "KeyError", fields |-> << >>]
    ELSE [error |-> "none",
          fields |-> << [ Hanzi |-> h,
                          English |-> Value(h, "english", r.padded),
                          Pinyin |-> Value(h, "pinyin", r.padded),
                          Sentence |-> Strip(Value(h, "sentence", r.padded)),
                          Translation |-> Strip(Value(h, "translation", r.padded)),
                          Cloze |-> Strip(Value(h, "cloze", r.padded)) ] >> ]

\* the dict main() appends: the generated fields plus the two audio columns
NoteOf(f, word_path, sent_path) ==
    [c \in { fieldnames[i] : i \in 1..Len(fieldnames) } |->
        CASE c = "Hanzi" -> f.Hanzi
          [] c = "English" -> f.English
          [] c = "Pinyin" -> f.Pinyin
          [] c = "Sentence" -> f.Sentence
          [] c = "Sentence (Translation)" -> f.Translation
          [] c = "Sentence (Cloze)" -> f.Cloze
          [] c = "Audio (Word)" -> SoundRef(word_path)
          [] c = "Audio (Sentence)" -> SoundRef(sent_path)]

OkReply == [raised |-> FALSE, json |-> TRUE, keys |-> Keys, padded |-> FALSE]

\* a row left by an earlier run
OldRow ==
    RowOf(NoteOf(generate_fields_from_hanzi(Word(1), OkReply).fields[1],
                 Path(Word(1), "_word.mp3"), Path(Word(1), "_sentence.mp3")))

OldFiles == { EmptyFile,
              [header |-> TRUE, rows |-> << >>],
              [header |-> TRUE, rows |-> << OldRow >>] }

Init ==
    /\ pc = "start"
    /\ input_file \in BOOLEAN
    /\ path_exists \in (IF input_file THEN BOOLEAN ELSE {FALSE})
    /\ lines \in (IF input_file /\ path_exists THEN Inputs ELSE ShortInputs)
    /\ csv \in OldFiles
    /\ words = << >>
    /\ removed = -1
    /\ idx = 0
    /\ fields = << >>
    /\ processed_rows = << >>
    /\ failed_words = << >>
    /\ row_count = 0
    /\ audio = {}
    /\ saver = "none"
    /\ pending = << >>
    /\ calls = << >>
    /\ nGen = 0
    /\ nSave = 0
    /\ nFinal = 0
    /\ succeeded = {}
    /\ snapFaults = 0
    /\ wpos = 0
    /\ reply = << >>
    /\ error = "none"

\* ---- startup: lines 108-120 ------------------------------------------------
\* open(output_file, "w")
InitOpen ==
    /\ pc = "start"
    /\ csv' = OpenForWrite(csv)
    /\ pc' = "init_header"
    /\ UNCHANGED << input_file, path_exists, lines, words, removed, idx, fields,
                    processed_rows, failed_words, row_count, audio, saver,
                    pending, calls, nGen, nSave, nFinal, succeeded,
                    snapFaults, wpos, reply, error >>

\* writer.writeheader() and the end of the with block
InitHeader ==
    /\ pc = "init_header"
    /\ csv' = WriteHeader(csv)
    /\ pc' = "input"
    /\ UNCHANGED << input_file, path_exists, lines, words, removed, idx, fields,
                    processed_rows, failed_words, row_count, audio, saver,
                    pending, calls, nGen, nSave, nFinal, succeeded,
                    snapFaults, wpos, reply, error >>

\* ---- the word source: lines 126-145 ------------------------------------------
\* [line.strip() for line in f if line.strip()]
RECURSIVE ReadWords(_)
ReadWords(ls) ==
    IF ls = << >> THEN << >>
    ELSE IF NonEmpty(Strip(Head(ls)))
         THEN << Strip(Head(ls)) >> \o ReadWords(Tail(ls))
         ELSE ReadWords(Tail(ls))

\* the interactive loop: input().strip() until the first empty entry (the
\* entries in `lines` are followed by a bare Enter)
RECURSIVE TypedWords(_)
TypedWords(ls) ==
    IF ls = << >> THEN << >>
    ELSE IF NonEmpty(Strip(Head(ls)))
         THEN << Strip(Head(ls)) >> \o TypedWords(Tail(ls))
         ELSE << >>

InputUnchanged ==
    UNCHANGED << input_file, path_exists, lines, removed, idx, fields,
                 processed_rows, failed_words, row_count, csv, audio, saver,
                 pending, calls, nGen, nSave, nFinal, succeeded,
                 snapFaults, wpos, reply, error >>

\* "Error: Input file ... not found."; return
FileNotFound ==
    /\ pc = "input"
    /\ input_file /\ ~path_exists
    /\ pc' = "notfound"
    /\ words' = words
    /\ InputUnchanged

ReadFile ==
    /\ pc = "input"
    /\ input_file /\ path_exists
    /\ words' = ReadWords(lines)
    /\ pc' = "dedup"
    /\ InputUnchanged

\* a variant without the test of lines 143-145
InteractiveUnchecked ==
    /\ pc = "input"
    /\ ~input_file
    /\ words' = TypedWords(lines)
    /\ pc' = "dedup"
    /\ InputUnchanged

\* "No words entered. Exiting."; return
Interactive ==
    /\ pc = "input"
    /\ ~input_file
    /\ words' = TypedWords(lines)
    /\ pc' = IF words' = << >> THEN "nowords" ELSE "dedup"
    /\ InputUnchanged

\* a variant that keeps the last occurrence of each word
RECURSIVE DedupKeepLast(_)
DedupKeepLast(ws) ==
    IF ws = << >> THEN << >>
    ELSE IF \E i \in 2..Len(ws) : ws[i] = Head(ws)
         THEN DedupKeepLast(Tail(ws))
         ELSE << Head(ws) >> \o DedupKeepLast(Tail(ws))

\* ---- deduplication: lines 147-153 ----------------------------------------------
\* [x for x in words if not (x in seen or seen.add(x))]
RECURSIVE DedupFrom(_, _, _)
DedupFrom(ws, i, seen) ==
    IF i > Len(ws) THEN << >>
    ELSE IF ws[i] \in seen
         THEN DedupFrom(ws, i + 1, seen)
         ELSE << ws[i] >> \o DedupFrom(ws, i + 1, seen \cup {ws[i]})

Dedup(ws) == DedupFrom(ws, 1, {})

RemoveDuplicates ==
    /\ pc = "dedup"
    /\ words' = Dedup(words)
    /\ removed' = IF Len(words) > Len(words') THEN Len(words) - Len(words') ELSE -1
    /\ idx' = 1
    /\ pc' = "loop"
    /\ UNCHANGED << input_file, path_exists, lines, fields, processed_rows,
                    failed_words, row_count, csv, audio, saver, pending, calls,
                    nGen, nSave, nFinal, succeeded, snapFaults, wpos, reply, error >>

\* ---- the processing loop: lines 156-181 ----------------------------------------
hanzi == words[idx]

GenerateCall(h) == [svc |-> "generate", text |-> h, file |-> NoPath]
SynthesizeCall(text, path) == [svc |-> "synthesize", text |-> text, file |-> path]

audio_word_path(h) == Path(h, "_word.mp3")
audio_sent_path(h) == Path(h, "_sentence.mp3")

\* a variant that synthesizes the bare word a second time
SentenceCallOfWord(f, h) == SynthesizeCall(f.Hanzi, audio_sent_path(h))

\* the arguments of the two synthesize_audio calls, lines 164-165
WordCall(f, h) == SynthesizeCall(f.Hanzi, audio_word_path(h))
SentenceCall(f, h) == SynthesizeCall(f.Sentence, audio_sent_path(h))

\* a variant that tests the count as it was before the increment
ShouldSaveBeforeIncrement(n) == (n - 1) % SaveEvery = 0

\* if row_count % 10 == 0
ShouldSave(n) == n % SaveEvery = 0

\* The services may fail for any word of a short input; in the long input for
\* at most MaxFailures words (entries of failed_words not due to a snapshot).
CanFail ==
    \/ Len(lines) <= MaxLines
    \/ Len(failed_words) - snapFaults < MaxFailures

\* except Exception as e: failed_words.append(hanzi); continue
Except(e) ==
    /\ error' = e
    /\ failed_words' = Append(failed_words, hanzi)
    /\ idx' = idx + 1
    /\ pc' = "loop"
    /\ pending' = << >>
    /\ fields' = << >>

\* for hanzi in words: ... client.responses.create(...), lines 156-158, 47-53
Generate ==
    /\ pc = "loop"
    /\ idx <= Len(words)
    /\ pending' = Append(pending, GenerateCall(hanzi))
    /\ calls' = << GenerateCall(hanzi) >>
    /\ nGen' = nGen + 1
    /\ reply' = << >>
    /\ error' = "none"
    /\ pc' = "generating"
    /\ UNCHANGED << input_file, path_exists, lines, words, removed, idx, fields,
                    processed_rows, failed_words, row_count, csv, audio, saver,
                    nSave, nFinal, succeeded, snapFaults, wpos >>

\* the reply parses and holds the five keys: generate_fields_from_hanzi returns
GenerateOk ==
    /\ pc = "generating"
    /\ \E r \in Replies :
         /\ generate_fields_from_hanzi(hanzi, r).error = "none"
         /\ fields' = generate_fields_from_hanzi(hanzi, r).fields
         /\ reply' = << r >>
    /\ pending' = << >>
    /\ pc' = "synth_word"
    /\ UNCHANGED << input_file, path_exists, lines, words, removed, idx,
                    processed_rows, failed_words, row_count, csv, audio, saver,
                    calls, nGen, nSave, nFinal, succeeded, snapFaults, wpos, error >>

\* the call raises, the text is not JSON, or a key is missing
GenerateFail ==
    /\ pc = "generating"
    /\ CanFail
    /\ \E r \in Replies :
         /\ generate_fields_from_hanzi(hanzi, r).error /= "none"
         /\ reply' = << r >>
         /\ Except(generate_fields_from_hanzi(hanzi, r).error)
    /\ UNCHANGED << input_file, path_exists, lines, words, removed,
                    processed_rows, row_count, csv, audio, saver, calls, nGen,
                    nSave, nFinal, succeeded, snapFaults, wpos >>

\* synthesize_audio(fields["Hanzi"], audio_word_path): the request, line 21
SynthWord ==
    /\ pc = "synth_word"
    /\ pending' = Append(pending, WordCall(fields[1], hanzi))
    /\ calls' = Append(calls, WordCall(fields[1], hanzi))
    /\ reply' = << >>
    /\ pc' = "synthesizing_word"
    /\ UNCHANGED << input_file, path_exists, lines, words, removed, idx, fields,
                    processed_rows, failed_words, row_count, csv, audio, saver,
                    nGen, nSave, nFinal, succeeded, snapFaults, wpos, error >>

\* the audio arrives and is written to the file, lines 23-24
SynthWordOk ==
    /\ pc = "synthesizing_word"
    /\ audio' = audio \cup { pending[1].file }
    /\ pending' = << >>
    /\ pc' = "synth_sentence"
    /\ UNCHANGED << input_file, path_exists, lines, words, removed, idx, fields,
                    processed_rows, failed_words, row_count, csv, saver, calls,
                    nGen, nSave, nFinal, succeeded, snapFaults, wpos, reply, error >>

SynthWordFail ==
    /\ pc = "synthesizing_word"
    /\ CanFail
    /\ Except("SynthesisError")
    /\ UNCHANGED << input_file, path_exists, lines, words, removed,
                    processed_rows, row_count, csv, audio, saver, calls, nGen,
                    nSave, nFinal, succeeded, snapFaults, wpos, reply >>

\* synthesize_audio(fields["Sentence"], audio_sent_path)
SynthSentence ==
    /\ pc = "synth_sentence"
    /\ pending' = Append(pending, SentenceCall(fields[1], hanzi))
    /\ calls' = Append(calls, SentenceCall(fields[1], hanzi))
    /\ pc' = "synthesizing_sentence"
    /\ UNCHANGED << input_file, path_exists, lines, words, removed, idx, fields,
                    processed_rows, failed_words, row_count, csv, audio, saver,
                    nGen, nSave, nFinal, succeeded, snapFaults, wpos, reply, error >>

SynthSentenceOk ==
    /\ pc = "synthesizing_sentence"
    /\ audio' = audio \cup { pending[1].file }
    /\ pending' = << >>
    /\ succeeded' = succeeded \cup { hanzi }
    /\ pc' = "record"
    /\ UNCHANGED << input_file, path_exists, lines, words, removed, idx, fields,
                    processed_rows, failed_words, row_count, csv, saver, calls,
                    nGen, nSave, nFinal, snapFaults, wpos, reply, error >>

SynthSentenceFail ==
    /\ pc = "synthesizing_sentence"
    /\ CanFail
    /\ Except("SynthesisError")
    /\ UNCHANGED << input_file, path_exists, lines, words, removed,
                    processed_rows, row_count, csv, audio, saver, calls, nGen,
                    nSave, nFinal, succeeded, snapFaults, wpos, reply >>

\* lines 167-174: the audio columns, processed_rows.append(fields),
\* row_count += 1 and the test for a snapshot
Record ==
    /\ pc = "record"
    /\ processed_rows' =
         Append(processed_rows,
                NoteOf(fields[1], audio_word_path(hanzi), audio_sent_path(hanzi)))
    /\ row_count' = row_count + 1
    /\ IF ShouldSave(row_count')
       THEN /\ pc' = "save_arg"
            /\ saver' = "loop"
            /\ idx' = idx
       ELSE /\ pc' = "loop"
            /\ saver' = saver
            /\ idx' = idx + 1
    /\ fields' = << >>
    /\ UNCHANGED << input_file, path_exists, lines, words, removed,
                    failed_words, csv, audio, pending, calls, nGen, nSave,
                    nFinal, succeeded, snapFaults, wpos, reply, error >>

\* ---- save_progress: lines 90-100, called at lines 176 and 185 -----------------
SaveUnchanged ==
    UNCHANGED << input_file, path_exists, lines, words, removed, fields,
                 processed_rows, row_count, audio, pending, calls, nGen, succeeded,
                 reply, error >>

\* the argument csv.DictWriter(open(output_file, "w", ...)) is evaluated first
SaveArg ==
    /\ pc = "save_arg"
    /\ csv' = OpenForWrite(csv)
    /\ pc' = "save_open"
    /\ UNCHANGED << idx, failed_words, saver, nSave, nFinal, snapFaults, wpos >>
    /\ SaveUnchanged

\* save_progress is entered: with open(output_file, "w", ...), line 92
SaveOpen ==
    /\ pc = "save_open"
    /\ csv' = OpenForWrite(csv)
    /\ nSave' = IF saver = "loop" THEN nSave + 1 ELSE nSave
    /\ nFinal' = IF saver = "final" THEN nFinal + 1 ELSE nFinal
    /\ wpos' = 0
    /\ pc' = "save_header"
    /\ UNCHANGED << idx, failed_words, saver, snapFaults >>
    /\ SaveUnchanged

\* writer.writeheader(), line 99
SaveHeader ==
    /\ pc = "save_header"
    /\ csv' = WriteHeader(csv)
    /\ pc' = "save_rows"
    /\ UNCHANGED << idx, failed_words, saver, nSave, nFinal, snapFaults, wpos >>
    /\ SaveUnchanged

\* writer.writerows(rows), line 100, one row at a time
SaveRow ==
    /\ pc = "save_rows"
    /\ wpos < Len(processed_rows)
    /\ csv' = WriteRow(csv, RowOf(processed_rows[wpos + 1]))
    /\ wpos' = wpos + 1
    /\ pc' = "save_rows"
    /\ UNCHANGED << idx, failed_words, saver, nSave, nFinal, snapFaults >>
    /\ SaveUnchanged

\* the with block ends and save_progress returns: to the loop (continue with
\* the next word) or to the summary, lines 188-192
SaveReturn ==
    /\ pc = "save_rows"
    /\ wpos = Len(processed_rows)
    /\ IF saver = "loop"
       THEN pc' = "loop" /\ idx' = idx + 1
       ELSE pc' = "done" /\ idx' = idx
    /\ saver' = "none"
    /\ wpos' = 0
    /\ UNCHANGED << csv, failed_words, nSave, nFinal, snapFaults >>
    /\ SaveUnchanged

\* An OSError out of line 176 is inside the try block of the loop and reaches
\* the except clause of line 178.  The model raises it from either of the two
\* open() calls: the first leaves the file as it was, the second finds it
\* already truncated by the first.  The same error out of line 185 is caught
\* by nobody and ends the process in the state where it is raised.
SaveFault ==
    /\ pc \in {"save_arg", "save_open"}
    /\ saver = "loop"
    /\ snapFaults < MaxSnapFaults
    /\ snapFaults' = snapFaults + 1
    /\ Except("OSError")
    /\ saver' = "none"
    /\ wpos' = 0
    /\ UNCHANGED << input_file, path_exists, lines, words, removed,
                    processed_rows, row_count, csv, audio, calls, nGen,
                    nSave, nFinal, succeeded, reply >>

\* ---- the end of the run: lines 183-192 ------------------------------------------
\* a variant with the test inverted
FinalSaveWhenEmpty(rows) == rows = << >>

\* if processed_rows:
NeedsFinalSave(rows) == rows /= << >>

LoopEnd ==
    /\ pc = "loop"
    /\ idx > Len(words)
    /\ reply' = << >>
    /\ pc' = "final"
    /\ UNCHANGED << input_file, path_exists, lines, words, removed, idx, fields,
                    processed_rows, failed_words, row_count, csv, audio, saver,
                    pending, calls, nGen, nSave, nFinal, succeeded,
                    snapFaults, wpos, error >>

FinalSave ==
    /\ pc = "final"
    /\ NeedsFinalSave(processed_rows)
    /\ pc' = "save_arg"
    /\ saver' = "final"
    /\ UNCHANGED << input_file, path_exists, lines, words, removed, idx, fields,
                    processed_rows, failed_words, row_count, csv, audio,
                    pending, calls, nGen, nSave, nFinal, succeeded,
                    snapFaults, wpos, reply, error >>

FinalSkip ==
    /\ pc = "final"
    /\ ~NeedsFinalSave(processed_rows)
    /\ pc' = "done"
    /\ UNCHANGED << input_file, path_exists, lines, words, removed, idx, fields,
                    processed_rows, failed_words, row_count, csv, audio, saver,
                    pending, calls, nGen, nSave, nFinal, succeeded,
                    snapFaults, wpos, reply, error >>

Next ==
    \/ InitOpen \/ InitHeader
    \/ FileNotFound \/ ReadFile \/ Interactive
    \/ RemoveDuplicates
    \/ Generate \/ GenerateOk \/ GenerateFail
    \/ SynthWord \/ SynthWordOk \/ SynthWordFail
    \/ SynthSentence \/ SynthSentenceOk \/ SynthSentenceFail
    \/ Record
    \/ SaveArg \/ SaveOpen \/ SaveHeader \/ SaveRow \/ SaveReturn \/ SaveFault
    \/ LoopEnd \/ FinalSave \/ FinalSkip

Spec == Init /\ [][Next]_vars

\* main() is one thread that runs to its end unless it is interrupted
FairSpec == Spec /\ WF_vars(Next)

Terminated == pc \in {"done", "notfound", "nowords"}

\* ---- vocabulary of the properties ------------------------------------------------
HeaderOnly == [header |-> TRUE, rows |-> << >>]

\* the rows save_progress writes for a record list
Rows(recs) == [i \in 1..Len(recs) |-> RowOf(recs[i])]

\* the Hanzi column of the records / of the rows on disk
Hanzis(recs) == [i \in 1..Len(recs) |-> recs[i]["Hanzi"]]
HanziColumn(rows) == [i \in 1..Len(rows) |-> rows[i][1]]

IsPrefix(a, b) == Len(a) <= Len(b) /\ \A i \in 1..Len(a) : a[i] = b[i]

Elements(q) == { q[i] : i \in 1..Len(q) }

\* the word list before deduplication
InputWords == IF input_file THEN ReadWords(lines) ELSE TypedWords(lines)

InLoop == pc \in {"loop", "generating", "synth_word", "synthesizing_word",
                  "synth_sentence", "synthesizing_sentence", "record"}
Saving == pc \in {"save_arg", "save_open", "save_header", "save_rows"}

\* the words of the list whose generation and both syntheses succeeded
IsSucceeded(w) == w \in succeeded
SuccessfulWords == SelectSeq(words, IsSucceeded)

\* ---- C1 ------------------------------------------------------------------------------
\* C1 (snapshot completeness): when main() finishes a run, output/notes.csv
\* holds the header followed by exactly one row per successful word (a word
\* whose generation and both syntheses succeeded), in processing order, each
\* row being that word's record; no other row, none missing, none twice.
C1_SnapshotComplete ==
    pc = "done" =>
        /\ csv.header
        /\ csv.rows = Rows(processed_rows)
        /\ HanziColumn(csv.rows) = SuccessfulWords
        /\ Len(csv.rows) = Cardinality(succeeded)
        /\ \A i \in 1..Len(csv.rows) :
             csv.rows[i] =
               RowOf(NoteOf(generate_fields_from_hanzi(SuccessfulWords[i], OkReply).fields[1],
                            Path(SuccessfulWords[i], "_word.mp3"),
                            Path(SuccessfulWords[i], "_sentence.mp3")))

\* a finished run with two checkpoints behind it, a failed word among the
\* words and successes after the last checkpoint
C1_Witness ==
    /\ pc = "done"
    /\ Len(processed_rows) > 2 * SaveEvery
    /\ Len(processed_rows) < Len(words)
    /\ Elements(failed_words) \cap succeeded = {}

\* ---- C2 ------------------------------------------------------------------------------
\* the checkpoint boundary the file is claimed never to fall behind: the last
\* multiple of 10 reached by the success count, not counting the checkpoint
\* whose write is in progress
S == Len(processed_rows)
DurableFloor ==
    IF saver = "loop" THEN SaveEvery * ((S \div SaveEvery) - 1)
    ELSE SaveEvery * (S \div SaveEvery)

\* C2 (partial-progress durability): at every point after the first word has
\* started, also in the middle of a snapshot write, the rows on disk are a
\* prefix of the record list, at most S and at least the last checkpoint
\* boundary.  (Stated for the runs in which no write raises, and with the
\* boundary of a checkpoint in progress not yet demanded.)
C2_DurablePrefix ==
    ((InLoop \/ Saving \/ pc \in {"final", "done"}) /\ snapFaults = 0) =>
        /\ IsPrefix(csv.rows, Rows(processed_rows))
        /\ Len(csv.rows) <= S
        /\ Len(csv.rows) >= DurableFloor

\* ---- C5 ------------------------------------------------------------------------------
\* C5 (record/failure exclusivity): every word in processed_rows had its
\* generation and both syntheses succeed, and no word is in processed_rows and
\* in failed_words, whatever exception the except clause of the loop caught.
C5_Exclusive ==
    /\ Elements(Hanzis(processed_rows)) \subseteq succeeded
    /\ Elements(Hanzis(processed_rows)) \cap Elements(failed_words) = {}

\* ---- C6 ------------------------------------------------------------------------------
\* positions of the input that hold the first occurrence of their word
FirstPositions(inp) ==
    { i \in 1..Len(inp) : \A j \in 1..(i - 1) : inp[j] /= inp[i] }

\* the number of first occurrences up to position i
Rank(inp, i) == Cardinality({ j \in FirstPositions(inp) : j <= i })

\* C6 (deduplication): the processed list is the input with every repeated
\* entry removed, each word at the rank of its first occurrence, no word
\* twice; the removed count reported is len(input) - len(deduped), and is
\* reported when it is positive.  The positions are checked where the loop
\* starts, the rest each time the loop takes a word.
C6_Dedup ==
    /\ (pc = "loop" /\ nGen = 0) =>
         /\ Len(words) = Cardinality(FirstPositions(InputWords))
         /\ \A i \in FirstPositions(InputWords) :
              words[Rank(InputWords, i)] = InputWords[i]
    /\ pc = "loop" =>
         /\ Cardinality(Elements(words)) = Len(words)
         /\ Elements(words) = Elements(InputWords)
         /\ IF Len(InputWords) > Len(words)
            THEN removed = Len(InputWords) - Len(words)
            ELSE removed = -1

\* an input in which a word is repeated after another word came in between
C6_Witness ==
    /\ pc = "loop"
    /\ Len(InputWords) = 3
    /\ InputWords[1] = InputWords[3]
    /\ InputWords[1] /= InputWords[2]
    /\ words = << InputWords[1], InputWords[2] >>
    /\ removed = 1

\* ---- C4 ------------------------------------------------------------------------------
PastInput == pc \notin {"start", "init_header", "input"}

\* C4 (fatal-path short-circuit): an input path that does not exist, or an
\* interactive entry of zero words, ends main() there: nothing runs after it,
\* no generation and no synthesis call has been made and the output table
\* holds no data row.
C4_FatalShortCircuit ==
    /\ (PastInput /\ input_file /\ ~path_exists) => pc = "notfound"
    /\ (PastInput /\ ~input_file /\ TypedWords(lines) = << >>) => pc = "nowords"
    /\ pc \in {"notfound", "nowords"} =>
         /\ ~ENABLED Next
         /\ nGen = 0
         /\ calls = << >>
         /\ pending = << >>
         /\ audio = {}
         /\ processed_rows = << >>
         /\ csv.rows = << >>

\* both fatal paths, taken with rows of an earlier run in the file and with
\* lines that would have been words
C4_Witness ==
    \/ pc = "notfound" /\ ReadWords(lines) /= << >>
    \/ pc = "nowords" /\ Len(lines) > 1 /\ ReadWords(lines) /= << >>

\* ---- C10 -----------------------------------------------------------------------------
NoSnapshotYet == saver = "none" /\ nSave = 0 /\ nFinal = 0 /\ snapFaults = 0

\* C10 (startup reset): main() rewrites output/notes.csv as a header-only
\* table before it looks at the input: from then until the first snapshot
\* begins the file is header-only, on the two fatal paths too, whatever an
\* earlier run left in it; and while the startup write is still under way no
\* input has been looked at.
C10_StartupReset ==
    /\ pc \in {"start", "init_header"} => words = << >> /\ idx = 0
    /\ (pc \notin {"start", "init_header"} /\ NoSnapshotYet) => csv = HeaderOnly

\* a fatal run that started over a file holding a row
C10_Witness == pc \in {"notfound", "nowords"} /\ csv = HeaderOnly

\* ---- C3 ------------------------------------------------------------------------------
\* a reply that is not valid JSON or lacks one of the five keys
BadReply(r) == ~r.raised /\ (~r.json \/ ~(Keys \subseteq r.keys))

GenerationErrors == {"ServiceError", "ValueError", "KeyError"}

\* C3 (parse-failure isolation): the step in which such a reply arrives fails
\* the word: it goes on the failure list, no synthesis call is or will be made
\* for it (the only call of the word is its generation call and the loop is
\* back at its head, one word further), no record is added, and everything
\* the later words' processing reads is as the word found it; whenever the
\* loop is at its head with a word left, that word's generation can start.
C3_ParseFailureIsolated ==
    /\ [][ (reply' /= << >> /\ reply' /= reply /\ BadReply(reply'[1])) =>
             /\ error' \in {"ValueError", "KeyError"}
             /\ failed_words' = Append(failed_words, words[idx])
             /\ calls' = << GenerateCall(words[idx]) >>
             /\ pending' = << >>
             /\ pc' = "loop"
             /\ idx' = idx + 1
             /\ UNCHANGED << words, processed_rows, row_count, csv, audio,
                             saver, wpos, nSave >> ]_vars
    /\ [](pc = "loop" /\ idx <= Len(words) => ENABLED Generate)

\* a reply without one of the keys has just failed a word that came after a
\* recorded word, and there is a word left to process
C3_Witness ==
    /\ pc = "loop"
    /\ reply /= << >>
    /\ reply[1].json /\ ~(Keys \subseteq reply[1].keys)
    /\ error = "KeyError"
    /\ processed_rows /= << >>
    /\ idx <= Len(words)

\* ---- C7 ------------------------------------------------------------------------------
\* C7 (checkpoint schedule): an in-loop snapshot begins in exactly the steps
\* in which the success count has just become a positive multiple of 10; a
\* step that puts a word on the failure list neither advances the count nor
\* begins a snapshot; the end-of-run step is taken whatever happened before
\* and begins the final snapshot, except that with zero successes it changes
\* nothing and the table stays the header-only table of startup.
C7_CheckpointSchedule ==
    /\ [][ (saver' = "loop" /\ saver /= "loop")
             <=> (row_count' = row_count + 1 /\ row_count' > 0
                    /\ row_count' % SaveEvery = 0) ]_vars
    /\ [][ failed_words' /= failed_words =>
             /\ row_count' = row_count
             /\ processed_rows' = processed_rows
             /\ saver' = "none"
             /\ nSave' = nSave
             /\ csv' = csv ]_vars
    /\ [][ pc = "final" =>
             IF processed_rows /= << >>
             THEN pc' = "save_arg" /\ saver' = "final"
             ELSE pc' = "done" /\ csv' = csv /\ csv = HeaderOnly /\ nSave' = 0 ]_vars
    /\ [](pc = "final" => ENABLED (FinalSave \/ FinalSkip))
    /\ [](nFinal <= 1 /\ (nFinal = 1 => pc \in {"save_header", "save_rows", "done"}))
    /\ [](pc = "done" =>
             /\ nFinal = IF processed_rows = << >> THEN 0 ELSE 1
             /\ csv = [header |-> TRUE, rows |-> Rows(processed_rows)])
    /\ [](nSave + snapFaults >= (row_count \div SaveEvery) - (IF saver = "loop" THEN 1 ELSE 0))
    /\ [](nSave <= row_count \div SaveEvery)

\* a finished run with two checkpoints, the final snapshot and a failed word
C7_Witness ==
    /\ pc = "done"
    /\ nSave = 2
    /\ nFinal = 1
    /\ failed_words /= << >>
    /\ snapFaults = 0

\* ---- C8 ------------------------------------------------------------------------------
\* the calls of one word's whole pipeline, in order: generation, synthesis of
\* the bare word into <hanzi>_word.mp3, synthesis of the stripped example
\* sentence into <hanzi>_sentence.mp3
ExpectedCalls(w) ==
    << [svc |-> "generate", text |-> w, file |-> NoPath],
       [svc |-> "synthesize", text |-> w,
        file |-> [dir |-> "output/audio/",
                  base |-> [stem |-> w, suffix |-> "_word.mp3"]]],
       [svc |-> "synthesize", text |-> Str("sentence", w.h, FALSE),
        file |-> [dir |-> "output/audio/",
                  base |-> [stem |-> w, suffix |-> "_sentence.mp3"]]] >>

\* the word whose calls are in `calls`
CalledWord == calls[1].text

\* a word has left the loop body and its generation call had succeeded
GeneratedWordLeft ==
    /\ pc = "loop"
    /\ calls /= << >>
    /\ error \notin GenerationErrors

\* what holds of the order of the calls whether or not a synthesis fails
CallOrder ==
    /\ Len(pending) <= 1
    /\ pending /= << >> =>
         /\ pc \in {"generating", "synthesizing_word", "synthesizing_sentence"}
         /\ pending[1] = calls[Len(calls)]
    /\ calls /= << >> =>
         /\ IsPrefix(calls, ExpectedCalls(CalledWord))
         /\ nGen \in 1..Len(words)
         /\ CalledWord = words[nGen]
    /\ calls = << >> => nGen = 0 /\ processed_rows = << >>
    /\ (InLoop /\ pc /= "loop") => nGen = idx
    /\ pc = "generating" => Len(calls) = 1
    /\ pc \in {"synth_word", "synthesizing_word"} =>
         Len(calls) = (IF pc = "synth_word" THEN 1 ELSE 2)
    /\ pc \in {"synth_sentence", "synthesizing_sentence"} =>
         Len(calls) = (IF pc = "synth_sentence" THEN 2 ELSE 3)
    /\ pc = "record" =>
         /\ calls = ExpectedCalls(words[idx])
         /\ pending = << >>
         /\ words[idx] \notin Elements(Hanzis(processed_rows))
    /\ pc = "generating" =>
         /\ Hanzis(processed_rows) = SelectSeq(SubSeq(words, 1, idx - 1), IsSucceeded)
         /\ \A i \in 1..(idx - 1) :
              words[i] \in Elements(Hanzis(processed_rows)) \cup Elements(failed_words)
         /\ words[idx] \notin succeeded

\* C8 as claimed (per-word call ordering): the order above, and the
\* synthesizer called twice for every word whose generation succeeded.
C8_TwicePerGenerated ==
    /\ CallOrder
    /\ GeneratedWordLeft => Len(calls) = 3

\* C8 as amended: at most one call is outstanding; a word's calls are its
\* generation call, then the synthesis of the bare word, then, only if that
\* one returned, the synthesis of its sentence; the record is appended after
\* all three returned, so every recorded word had the synthesizer called
\* exactly twice; no call is issued for a word before every earlier word is
\* recorded or failed.
C8_CallOrdering ==
    /\ CallOrder
    /\ GeneratedWordLeft => Len(calls) \in {2, 3}
    /\ (GeneratedWordLeft /\ error = "none") => Len(calls) = 3
    /\ (GeneratedWordLeft /\ Len(calls) = 2) =>
         /\ error = "SynthesisError"
         /\ CalledWord \notin Elements(Hanzis(processed_rows))

\* a word whose generation succeeded and whose first synthesis failed has left
\* the loop body after a recorded word
C8_Witness ==
    /\ GeneratedWordLeft
    /\ Len(calls) = 2
    /\ error = "SynthesisError"
    /\ processed_rows /= << >>

\* ---- C9 ------------------------------------------------------------------------------
\* C9 (run completion and accounting): once the loop is over every word has
\* been attempted exactly once, and the records plus the entries of the
\* failure list are as many as the words processed.
C9_Accounting ==
    pc \in {"final", "done"} =>
        /\ nGen = Len(words)
        /\ Len(processed_rows) + Len(failed_words) = Len(words)

\* a run with at least one word always ends: in the summary, or in one of the
\* two fatal exits
C9_Terminates == <>(pc \in {"done", "notfound", "nowords"})

====
